---- MODULE Spec2Model ----
(***************************************************************************)
(* Model of kolibri/core/device/api.py: the device provisioning view, the  *)
(* device info view, the device settings and device name views, and the    *)
(* user sync status viewset with its map_status classifier.                *)
(***************************************************************************)
EXTENDS Integers, FiniteSets, Sequences, TLC

VARIABLES
    status,            \* the row handed to map_status: active, queued, last_synced
    now,               \* timezone.now(), in minutes
    result,            \* the "status" field computed by field_map for that row
    deviceSettings,    \* the DeviceSettings table: <<>> or <<the single row>>
    provisionReq,      \* POST to DeviceProvisionView in flight: <<>> or <<request.data>>
    provisionResp,     \* the last response of DeviceProvisionView
    saveCalls,         \* number of serializer.save() calls made by DeviceProvisionView
    settingsReq,       \* DeviceSettingsView.patch between its get() and its save()
    nameReq,           \* DeviceNameView.patch between its get() and its save()
    settingsResp,      \* the last response of DeviceSettingsView
    nameResp,          \* the last response of DeviceNameView
    lastSettingsWrite, \* the settings fields last saved by DeviceSettingsView.patch
    lastStep,          \* the code path of the settings and name views that ran last
    infoEnv,           \* what DeviceInfoView reads from the server it runs on
    infoResp,          \* the last response of DeviceInfoView, with the user it went to
    networkLocations,  \* the DynamicNetworkLocation table
    syncStatuses,      \* the UserSyncStatus table
    queryset           \* what get_queryset returned last: <<>> or <<kind, rows>>

statusVars == <<status, now, result>>

provisionVars == <<provisionReq, provisionResp, saveCalls>>

settingsVars == <<settingsReq, nameReq, settingsResp, nameResp, lastSettingsWrite, lastStep>>

infoVars == <<infoEnv, infoResp>>

syncVars == <<networkLocations, syncStatuses, queryset>>

vars == <<statusVars, deviceSettings, provisionVars, settingsVars, infoVars, syncVars>>

\* Python's None, as a response value
None == "None"

\* A field that has not been computed yet
Unset == "UNSET"

(***************************************************************************)
(* Shared data: HTTP statuses, the DeviceSettings row, JSON booleans       *)
(***************************************************************************)

HTTP_200_OK == 200
HTTP_201_CREATED == 201
HTTP_400_BAD_REQUEST == 400
HTTP_403_FORBIDDEN == 403

NoResponse == [status |-> 0, body |-> <<>>]

\* Device names a client may send; "" is blank
Names == {"", "A", "B"}

\* settings.LANGUAGES, and a code that is not among them
LANGUAGES == {"en", "fr"}

LanguageInputs == LANGUAGES \cup {"xx"}

\* JSON spellings of a boolean field, and an input that is no boolean
BoolInputs == {"true", "false", "maybe"}

\* BooleanField.to_internal_value / to_representation
ParseBool(s) == s = "true"

FormatBool(b) == IF b THEN "true" ELSE "false"

\* The rows the DeviceSettings table can hold
SettingsRows ==
    [name : Names \ {""}, language_id : LANGUAGES,
     allow_guest_access : BOOLEAN, subset_of_users_device : BOOLEAN]

\* DeviceSettings.objects.get() on a provisioned device
TheSettings == deviceSettings[1]

ProvisionIdle ==
    /\ provisionReq = <<>>
    /\ provisionResp = NoResponse
    /\ saveCalls = 0

SettingsIdle ==
    /\ settingsReq = <<>>
    /\ nameReq = <<>>
    /\ settingsResp = NoResponse
    /\ nameResp = NoResponse
    /\ lastSettingsWrite = <<>>
    /\ lastStep = "init"

InfoIdle ==
    /\ infoEnv = <<>>
    /\ infoResp = <<>>

SyncIdle ==
    /\ networkLocations = {}
    /\ syncStatuses = {}
    /\ queryset = <<>>

(***************************************************************************)
(* map_status                                                              *)
(***************************************************************************)

\* Largest timestamp (minutes) the model draws
MaxTime == 17

\* timedelta(minutes=15)
RecentWindow == 15

RECENTLY_SYNCED == "RECENTLY_SYNCED"
SYNCING == "SYNCING"
QUEUED == "QUEUED"
NOT_RECENTLY_SYNCED == "NOT_RECENTLY_SYNCED"

Buckets == {SYNCING, QUEUED, RECENTLY_SYNCED, NOT_RECENTLY_SYNCED}

Times == 0..MaxTime

\* last_synced = Max(sync_session__last_activity_timestamp): NULL when the
\* user has no sync session, else a timestamp.  <<>> is NULL, <<t>> is t.
NoTimestamp == <<>>

Timestamps == {NoTimestamp} \cup {<<t>> : t \in Times}

\* Truth value of a datetime-or-None: every datetime is truthy, None is not
Truthy(ts) == ts # NoTimestamp

StatusRows == [active : BOOLEAN, queued : BOOLEAN, last_synced : Timestamps]

\* map_status with the queued test ahead of the active test
map_status_queued_first(s, t) ==
    IF s.queued THEN QUEUED
    ELSE IF s.active THEN SYNCING
    ELSE IF Truthy(s.last_synced)
         THEN IF t - s.last_synced[1] < RecentWindow
              THEN RECENTLY_SYNCED
              ELSE NOT_RECENTLY_SYNCED
         ELSE None

\* def map_status(status): falls off the end (returns None) when no branch
\* is taken
map_status(s, t) ==
    IF s.active THEN SYNCING
    ELSE IF s.queued THEN QUEUED
    ELSE IF Truthy(s.last_synced)
         THEN IF t - s.last_synced[1] < RecentWindow
              THEN RECENTLY_SYNCED
              ELSE NOT_RECENTLY_SYNCED
         ELSE None

InitStatus ==
    /\ status \in StatusRows
    /\ now \in Times
    /\ result = Unset
    /\ deviceSettings = <<>>
    /\ ProvisionIdle /\ SettingsIdle /\ InfoIdle /\ SyncIdle

\* ReadOnlyValuesViewset applies field_map["status"] to the row
SerializeStatus ==
    /\ result = Unset
    /\ result' = map_status(status, now)
    /\ UNCHANGED <<status, now, deviceSettings, provisionVars, settingsVars, infoVars, syncVars>>

NextStatus == SerializeStatus

SpecStatus == InitStatus /\ [][NextStatus]_vars

\* C1: every row is classified into one of the four buckets, also a row
\* that is not active, not queued and has never synced.
C1_AlwaysABucket == result # Unset => result \in Buckets

\* C6: active wins over queued, queued wins over last_synced; last_synced
\* plays no part unless both flags are false.
C6_Priority ==
    result # Unset =>
        /\ status.active => result = SYNCING
        /\ (~status.active /\ status.queued) => result = QUEUED
        /\ result \in {RECENTLY_SYNCED, NOT_RECENTLY_SYNCED} =>
               (~status.active /\ ~status.queued)

C6_Witness ==
    /\ result = SYNCING
    /\ status.active /\ status.queued
    /\ status.last_synced = <<0>>
    /\ now = MaxTime

(***************************************************************************)
(* DeviceProvisionView                                                     *)
(***************************************************************************)

\* request.data of a provisioning POST
ProvisionData ==
    [device_name : Names, language_id : LanguageInputs,
     allow_guest_access : BoolInputs]

\* DeviceProvisionSerializer: the fields that fail validation
ProvisionErrors(data) ==
    (IF data.device_name = "" THEN {"device_name"} ELSE {})
    \cup (IF data.language_id \notin LANGUAGES THEN {"language_id"} ELSE {})
    \cup (IF data.allow_guest_access \notin {"true", "false"}
          THEN {"allow_guest_access"} ELSE {})

\* serializer.is_valid()
ProvisionIsValid(data) == ProvisionErrors(data) = {}

\* serializer.save(): the DeviceSettings row of the newly provisioned device
ProvisionSave(data) ==
    [name |-> data.device_name, language_id |-> data.language_id,
     allow_guest_access |-> ParseBool(data.allow_guest_access),
     subset_of_users_device |-> FALSE]

\* output_serializer.data for what save() returned
ProvisionRepresentation(saved) ==
    [device_name |-> saved.name, language_id |-> saved.language_id,
     allow_guest_access |-> FormatBool(saved.allow_guest_access)]

\* permission_classes = (NotProvisionedCanPost,)
NotProvisionedCanPost == deviceSettings = <<>>

InitProvision ==
    /\ status = [active |-> FALSE, queued |-> FALSE, last_synced |-> NoTimestamp]
    /\ now = 0
    /\ result = Unset
    /\ deviceSettings = <<>>
    /\ ProvisionIdle /\ SettingsIdle /\ InfoIdle /\ SyncIdle

\* A client sends POST deviceprovision
ProvisionSubmit(data) ==
    /\ provisionReq = <<>>
    /\ provisionReq' = <<data>>
    /\ UNCHANGED <<statusVars, deviceSettings, provisionResp, saveCalls,
                   settingsVars, infoVars, syncVars>>

\* create() that saves whatever was submitted, is_valid's verdict ignored
DeviceProvisionCreate_NoValidation ==
    /\ provisionReq # <<>>
    /\ LET data == provisionReq[1] IN
       IF ~NotProvisionedCanPost
       THEN /\ provisionResp' = [status |-> HTTP_403_FORBIDDEN, body |-> <<>>]
            /\ UNCHANGED <<deviceSettings, saveCalls>>
       ELSE LET saved == ProvisionSave(data) IN
            /\ deviceSettings' = <<saved>>
            /\ saveCalls' = saveCalls + 1
            /\ provisionResp' = [status |-> HTTP_201_CREATED,
                                 body |-> ProvisionRepresentation(saved)]
    /\ provisionReq' = <<>>
    /\ UNCHANGED <<statusVars, settingsVars, infoVars, syncVars>>

\* DeviceProvisionView.create, behind its permission class
DeviceProvisionCreate ==
    /\ provisionReq # <<>>
    /\ LET data == provisionReq[1] IN
       IF ~NotProvisionedCanPost
       THEN /\ provisionResp' = [status |-> HTTP_403_FORBIDDEN, body |-> <<>>]
            /\ UNCHANGED <<deviceSettings, saveCalls>>
       ELSE IF ~ProvisionIsValid(data)
       THEN \* is_valid(raise_exception=True) raises ValidationError
            /\ provisionResp' = [status |-> HTTP_400_BAD_REQUEST,
                                 body |-> ProvisionErrors(data)]
            /\ UNCHANGED <<deviceSettings, saveCalls>>
       ELSE LET saved == ProvisionSave(data) IN
            /\ deviceSettings' = <<saved>>
            /\ saveCalls' = saveCalls + 1
            /\ provisionResp' = [status |-> HTTP_201_CREATED,
                                 body |-> ProvisionRepresentation(saved)]
    /\ provisionReq' = <<>>
    /\ UNCHANGED <<statusVars, settingsVars, infoVars, syncVars>>

NextProvision ==
    \/ \E data \in ProvisionData : ProvisionSubmit(data)
    \/ DeviceProvisionCreate

SpecProvision == InitProvision /\ [][NextProvision]_vars

\* The step in which create() answers the request in flight
ProvisionAnswered == provisionReq # <<>> /\ provisionReq' = <<>>

\* C2: create answers 201 only for data that passed validation and was
\* saved.  Invalid data ends in a 400, with no save() call and the stored
\* device state untouched; valid data is saved by exactly one save() call
\* and answered 201 with the serialized saved data.
C2_CreatedOnlyAfterValidSave ==
    [][ (ProvisionAnswered /\ NotProvisionedCanPost) =>
          IF ProvisionIsValid(provisionReq[1])
          THEN /\ saveCalls' = saveCalls + 1
               /\ deviceSettings' = <<ProvisionSave(provisionReq[1])>>
               /\ provisionResp'.status = HTTP_201_CREATED
               /\ provisionResp'.body =
                      ProvisionRepresentation(deviceSettings'[1])
          ELSE /\ provisionResp'.status = HTTP_400_BAD_REQUEST
               /\ saveCalls' = saveCalls
               /\ deviceSettings' = deviceSettings ]_vars

C2_Witness ==
    /\ provisionResp.status = HTTP_201_CREATED
    /\ saveCalls = 1
    /\ deviceSettings =
           <<[name |-> "B", language_id |-> "fr", allow_guest_access |-> TRUE,
              subset_of_users_device |-> FALSE]>>

(***************************************************************************)
(* DeviceSettingsView and DeviceNameView                                   *)
(***************************************************************************)

\* request.data of a settings PATCH
SettingsData == [language_id : LanguageInputs, allow_guest_access : BoolInputs]

\* request.data["name"] of a name PATCH
NameInputs == Names \ {""}

\* DeviceSettingsSerializer: the fields that fail validation
SettingsErrors(data) ==
    (IF data.language_id \notin LANGUAGES THEN {"language_id"} ELSE {})
    \cup (IF data.allow_guest_access \notin {"true", "false"}
          THEN {"allow_guest_access"} ELSE {})

\* serializer.is_valid()
SettingsIsValid(data) == SettingsErrors(data) = {}

\* The serializer's update(): validated data assigned to the loaded instance
SettingsUpdate(instance, data) ==
    [instance EXCEPT !.language_id = data.language_id,
                     !.allow_guest_access = ParseBool(data.allow_guest_access)]

\* DeviceSettingsSerializer(settings).data
SettingsRepresentation(instance) ==
    [language_id |-> instance.language_id,
     allow_guest_access |-> FormatBool(instance.allow_guest_access)]

\* The fields of a row that DeviceSettingsView.patch writes
SettingsFields(instance) ==
    [language_id |-> instance.language_id,
     allow_guest_access |-> instance.allow_guest_access]

InitSettings ==
    /\ status = [active |-> FALSE, queued |-> FALSE, last_synced |-> NoTimestamp]
    /\ now = 0
    /\ result = Unset
    /\ \E row \in SettingsRows :
          /\ ~row.subset_of_users_device
          /\ deviceSettings = <<row>>
          /\ lastSettingsWrite = <<SettingsFields(row)>>
    /\ settingsReq = <<>>
    /\ nameReq = <<>>
    /\ settingsResp = NoResponse
    /\ nameResp = NoResponse
    /\ lastStep = "init"
    /\ ProvisionIdle /\ InfoIdle /\ SyncIdle

\* DeviceSettingsView.get
DeviceSettingsGet ==
    /\ deviceSettings # <<>>
    /\ settingsResp' = [status |-> HTTP_200_OK,
                        body |-> SettingsRepresentation(TheSettings)]
    /\ lastStep' = "settings.get"
    /\ UNCHANGED <<statusVars, deviceSettings, provisionVars, settingsReq, nameReq,
                   nameResp, lastSettingsWrite, infoVars, syncVars>>

\* DeviceSettingsView.patch, first half: settings = DeviceSettings.objects.get()
DeviceSettingsPatchLoad(data) ==
    /\ deviceSettings # <<>>
    /\ settingsReq = <<>>
    /\ settingsReq' = <<[data |-> data, settings |-> TheSettings]>>
    /\ lastStep' = "settings.patch.get"
    /\ UNCHANGED <<statusVars, deviceSettings, provisionVars, nameReq,
                   settingsResp, nameResp, lastSettingsWrite, infoVars, syncVars>>

\* The second half of patch with the is_valid() test left out
DeviceSettingsPatchSave_NoValidation ==
    /\ settingsReq # <<>>
    /\ LET data == settingsReq[1].data
           instance == SettingsUpdate(settingsReq[1].settings, data) IN
       /\ deviceSettings' = <<instance>>
       /\ settingsResp' = [status |-> HTTP_200_OK,
                           body |-> SettingsRepresentation(instance)]
       /\ lastSettingsWrite' = <<SettingsFields(instance)>>
       /\ lastStep' = "settings.patch.save"
    /\ settingsReq' = <<>>
    /\ UNCHANGED <<statusVars, provisionVars, nameReq, nameResp, infoVars, syncVars>>

\* DeviceSettingsView.patch, second half: is_valid(), then either the 400 or
\* serializer.save(), which writes the whole loaded row back
DeviceSettingsPatchSave ==
    /\ settingsReq # <<>>
    /\ LET data == settingsReq[1].data IN
       IF ~SettingsIsValid(data)
       THEN /\ settingsResp' = [status |-> HTTP_400_BAD_REQUEST,
                                body |-> SettingsErrors(data)]
            /\ lastStep' = "settings.patch.invalid"
            /\ UNCHANGED <<deviceSettings, lastSettingsWrite>>
       ELSE LET instance == SettingsUpdate(settingsReq[1].settings, data) IN
            /\ deviceSettings' = <<instance>>
            /\ settingsResp' = [status |-> HTTP_200_OK,
                                body |-> SettingsRepresentation(instance)]
            /\ lastSettingsWrite' = <<SettingsFields(instance)>>
            /\ lastStep' = "settings.patch.save"
    /\ settingsReq' = <<>>
    /\ UNCHANGED <<statusVars, provisionVars, nameReq, nameResp, infoVars, syncVars>>

\* DeviceNameView.get
DeviceNameGet ==
    /\ deviceSettings # <<>>
    /\ nameResp' = [status |-> HTTP_200_OK, body |-> [name |-> TheSettings.name]]
    /\ lastStep' = "name.get"
    /\ UNCHANGED <<statusVars, deviceSettings, provisionVars, settingsReq, nameReq,
                   settingsResp, lastSettingsWrite, infoVars, syncVars>>

\* DeviceNameView.patch, first half: settings = DeviceSettings.objects.get()
DeviceNamePatchLoad(name) ==
    /\ deviceSettings # <<>>
    /\ nameReq = <<>>
    /\ nameReq' = <<[name |-> name, settings |-> TheSettings]>>
    /\ lastStep' = "name.patch.get"
    /\ UNCHANGED <<statusVars, deviceSettings, provisionVars, settingsReq,
                   settingsResp, nameResp, lastSettingsWrite, infoVars, syncVars>>

\* DeviceNameView.patch, second half: settings.name = ...; settings.save(),
\* which writes the whole loaded row back
DeviceNamePatchSave ==
    /\ nameReq # <<>>
    /\ LET instance == [nameReq[1].settings EXCEPT !.name = nameReq[1].name] IN
       /\ deviceSettings' = <<instance>>
       /\ nameResp' = [status |-> HTTP_200_OK, body |-> [name |-> instance.name]]
    /\ lastStep' = "name.patch.save"
    /\ nameReq' = <<>>
    /\ UNCHANGED <<statusVars, provisionVars, settingsReq, settingsResp,
                   lastSettingsWrite, infoVars, syncVars>>

NextSettings ==
    \/ DeviceSettingsGet
    \/ \E data \in SettingsData : DeviceSettingsPatchLoad(data)
    \/ DeviceSettingsPatchSave
    \/ DeviceNameGet
    \/ \E name \in NameInputs : DeviceNamePatchLoad(name)
    \/ DeviceNamePatchSave

SpecSettings == InitSettings /\ [][NextSettings]_vars

\* The step in which DeviceSettingsView.patch answers
SettingsAnswered == settingsReq # <<>> /\ settingsReq' = <<>>

C7_NamePatchKeepsSettings ==
    lastStep = "name.patch.save" =>
        <<SettingsFields(TheSettings)>> = lastSettingsWrite

(***************************************************************************)
(* DeviceInfoView                                                          *)
(***************************************************************************)

\* Longest list of URLs get_urls() returns in the model
MaxUrls == 2

\* Largest free-space figure get_free_space() returns in the model
MaxFreeSpace == 1

Urls == {"http://127.0.0.1:8080/", "http://localhost:8080/", "http://10.0.0.5:8080/"}

\* "127.0.0.1" in url or "localhost" in url
IsLoopback(url) == url \in {"http://127.0.0.1:8080/", "http://localhost:8080/"}

UrlLists == UNION {[1..n -> Urls] : n \in 0..MaxUrls}

Engines ==
    {"django.db.backends.sqlite3", "django.db.backends.postgresql",
     "django.db.backends.mysql"}

\* What the view reads from outside: get_urls(), request.build_absolute_uri,
\* settings.DATABASES, get_free_space
InfoEnvs ==
    [urls : UrlLists, request_uri : {"http://localhost:8000/", "http://10.0.0.5/"},
     db_engine : Engines, free_space : 0..MaxFreeSpace]

\* info["urls"]
InfoUrls(env) ==
    LET urls == IF env.urls = <<>> THEN <<env.request_uri>> ELSE env.urls
        filtered_urls == SelectSeq(urls, LAMBDA url : ~IsLoopback(url))
    IN IF filtered_urls # <<>> THEN filtered_urls ELSE urls

\* info["database_path"]
InfoDatabasePath(env) ==
    IF env.db_engine = "django.db.backends.sqlite3" THEN "db.sqlite3"
    ELSE IF env.db_engine = "django.db.backends.postgresql" THEN "postgresql"
    ELSE "unknown"

\* The info dict as filled in before the superuser test
FullInfo(env) ==
    [version |-> "0.15.0",
     urls |-> InfoUrls(env),
     database_path |-> InfoDatabasePath(env),
     device_id |-> "instance-id",
     os |-> "Linux",
     content_storage_free_space |-> env.free_space,
     server_time |-> "local_now",
     server_timezone |-> "UTC",
     installer |-> "whl",
     python_version |-> <<"major", ".", "minor", ".", "micro">>]

\* keys_to_remove with device_id forgotten
keys_to_remove_without_device_id ==
    {"urls", "database_path", "os", "server_time", "server_timezone",
     "installer", "python_version"}

keys_to_remove ==
    {"urls", "database_path", "device_id", "os", "server_time",
     "server_timezone", "installer", "python_version"}

\* for key in keys: del info[key]
DelKeys(info, keys) == [k \in DOMAIN info \ keys |-> info[k]]

InitInfo ==
    /\ status = [active |-> FALSE, queued |-> FALSE, last_synced |-> NoTimestamp]
    /\ now = 0
    /\ result = Unset
    /\ deviceSettings = <<>>
    /\ infoEnv \in InfoEnvs
    /\ infoResp = <<>>
    /\ ProvisionIdle /\ SettingsIdle /\ SyncIdle

\* DeviceInfoView.get for a request whose user has the given is_superuser
DeviceInfoGet(is_superuser) ==
    /\ LET info == FullInfo(infoEnv) IN
       infoResp' = <<[is_superuser |-> is_superuser,
                      data |-> IF ~is_superuser
                               THEN DelKeys(info, keys_to_remove)
                               ELSE info]>>
    /\ UNCHANGED <<statusVars, deviceSettings, provisionVars, settingsVars,
                   infoEnv, syncVars>>

NextInfo == \E is_superuser \in BOOLEAN : DeviceInfoGet(is_superuser)

SpecInfo == InitInfo /\ [][NextInfo]_vars

C4_PublicKeys == {"version", "content_storage_free_space"}

C4_PrivateKeys ==
    {"urls", "database_path", "device_id", "os", "server_time",
     "server_timezone", "installer", "python_version"}

\* C4: a user who is not a superuser gets exactly the keys version and
\* content_storage_free_space and none of the eight others; a superuser gets
\* all ten; the key set is a function of is_superuser alone.
C4_KeysBySuperuser ==
    infoResp # <<>> =>
        /\ infoResp[1].is_superuser =>
               DOMAIN infoResp[1].data = C4_PublicKeys \cup C4_PrivateKeys
        /\ ~infoResp[1].is_superuser =>
               /\ DOMAIN infoResp[1].data = C4_PublicKeys
               /\ DOMAIN infoResp[1].data \cap C4_PrivateKeys = {}

C4_Witness ==
    /\ infoResp # <<>>
    /\ ~infoResp[1].is_superuser
    /\ infoEnv.urls = <<"http://10.0.0.5:8080/">>
    /\ infoEnv.db_engine = "django.db.backends.sqlite3"
    /\ infoResp[1].data.content_storage_free_space = infoEnv.free_space

(***************************************************************************)
(* UserSyncStatusViewSet.get_queryset                                      *)
(***************************************************************************)

\* Most DynamicNetworkLocation rows in the model
MaxLocations == 2

\* Most UserSyncStatus rows in the model
MaxUsers == 2

LocationRows == [id : 1..MaxLocations, subset_of_users_device : BOOLEAN]

\* The DynamicNetworkLocation tables: the id is the primary key
LocationTables ==
    {t \in SUBSET LocationRows : \A a, b \in t : a.id = b.id => a = b}

\* kolibri.core.device.utils.get_device_setting: the field of the
\* DeviceSettings row, or the default when the device has no such row
get_device_setting(setting, default) ==
    IF deviceSettings = <<>> THEN default ELSE TheSettings[setting]

InitSync ==
    /\ status = [active |-> FALSE, queued |-> FALSE, last_synced |-> NoTimestamp]
    /\ now = 0
    /\ result = Unset
    /\ \/ deviceSettings = <<>>
       \/ \E b \in BOOLEAN :
             deviceSettings =
                 <<[name |-> "A", language_id |-> "en", allow_guest_access |-> FALSE,
                    subset_of_users_device |-> b]>>
    /\ networkLocations \in LocationTables
    /\ syncStatuses \in SUBSET (1..MaxUsers)
    /\ queryset = <<>>
    /\ ProvisionIdle /\ SettingsIdle /\ InfoIdle

\* get_queryset that looks for any network location at all
GetQueryset_AnyLocation ==
    /\ IF /\ get_device_setting("subset_of_users_device", FALSE)
          /\ ~(\E loc \in networkLocations : TRUE)
       THEN queryset' = <<[kind |-> "none", rows |-> {}]>>
       ELSE queryset' = <<[kind |-> "all", rows |-> syncStatuses]>>
    /\ UNCHANGED <<statusVars, deviceSettings, provisionVars, settingsVars,
                   infoVars, networkLocations, syncStatuses>>

\* UserSyncStatusViewSet.get_queryset
GetQueryset ==
    /\ IF /\ get_device_setting("subset_of_users_device", FALSE)
          /\ ~(\E loc \in networkLocations : loc.subset_of_users_device = FALSE)
       THEN queryset' = <<[kind |-> "none", rows |-> {}]>>
       ELSE queryset' = <<[kind |-> "all", rows |-> syncStatuses]>>
    /\ UNCHANGED <<statusVars, deviceSettings, provisionVars, settingsVars,
                   infoVars, networkLocations, syncStatuses>>

NextSync == GetQueryset

SpecSync == InitSync /\ [][NextSync]_vars

\* The device setting subset_of_users_device is set and true
C5_SubsetDevice ==
    deviceSettings # <<>> /\ deviceSettings[1].subset_of_users_device

\* Some network location is a full-facility device
C5_FullDeviceKnown ==
    \E loc \in networkLocations : ~loc.subset_of_users_device

\* C5: get_queryset returns the empty queryset exactly when the device is a
\* subset-of-users device and no network location with
\* subset_of_users_device=False exists; otherwise it returns every
\* UserSyncStatus row.
C5_NoneIffSubsetWithoutPeer ==
    queryset # <<>> =>
        IF C5_SubsetDevice /\ ~C5_FullDeviceKnown
        THEN queryset[1].kind = "none" /\ queryset[1].rows = {}
        ELSE queryset[1].kind = "all" /\ queryset[1].rows = syncStatuses

C5_Witness ==
    /\ queryset # <<>>
    /\ queryset[1].rows = {}
    /\ syncStatuses = 1..MaxUsers
    /\ C5_SubsetDevice
    /\ networkLocations # {}
====
